---- MODULE Spec2Model ----
(***************************************************************************)
(* Model of internal/jsonschema/schema.go (JSONSchema.AttributeNames,      *)
(* JSONSchema.ValidateAndConvert and their helpers) and of the database    *)
(* schema migration entry point Migrate.                                   *)
(*                                                                         *)
(* Go strings that are parsed (attribute values) are sequences of one-     *)
(* character strings, so that strconv.Atoi and strconv.ParseBool are       *)
(* computed character by character.  Go interface{} values are records     *)
(* tagged with their dynamic type.  Slice indices keep Go's 0-based        *)
(* numbering; s[i] in Go is s[i + 1] here.                                 *)
(***************************************************************************)
EXTENDS Integers, Sequences, FiniteSets, TLC

VARIABLES
    content,              \* JSONSchema.content, the decoded schema document
    loaded,               \* history: the document as Load built it
    pc,                   \* position of the ValidateAndConvert call
    credentialAttributes, \* the caller's slice (argument, mutated in place)
    schemaAttributes,     \* local working descriptor list of the call
    i,                    \* number of loop iterations completed
    ret,                  \* what the call returned: slice and error
    entry,                \* history: credentialAttributes on entry
    orig,                 \* history: what AttributeNames returned to the call
    examined,             \* history: 0-based positions the loop has read
    notFound,             \* history: a lookup of the call returned -1
    extracted,            \* result of a direct AttributeNames call
    convIn,               \* input of a validateCredentialLinkAttribute call
    convOut,              \* its result
    mpc,                  \* position of the Migrate call
    dbOpen,               \* the *sql.DB handle is open
    mlog,                 \* history: library calls made by the current Migrate
    mret,                 \* error returned by Migrate
    mdone                 \* history: errors returned by earlier Migrate calls

vars == <<content, loaded, pc, credentialAttributes, schemaAttributes, i, ret,
          entry, orig, examined, notFound, extracted, convIn, convOut,
          mpc, dbOpen, mlog, mret, mdone>>

vacVars == <<pc, credentialAttributes, schemaAttributes, i, ret, entry, orig,
             examined, notFound>>
convVars == <<convIn, convOut>>
migVars == <<mpc, dbOpen, mlog, mret, mdone>>

-----------------------------------------------------------------------------
(* Bounds *)

\* longest attribute list a caller supplies
MaxAttrs == 2
\* longest string value enumerated exhaustively over Chars
MaxStrLen == 3
\* number of Migrate calls followed
MaxCalls == 3

-----------------------------------------------------------------------------
(* Dynamically typed values (interface{}) *)

StrV(s) == [k |-> "string", s |-> s, n |-> 0, b |-> FALSE]
IntV(n) == [k |-> "int", s |-> <<>>, n |-> n, b |-> FALSE]
BoolV(b) == [k |-> "bool", s |-> <<>>, n |-> 0, b |-> b]
NilV == [k |-> "nil", s |-> <<>>, n |-> 0, b |-> FALSE]

\* error values; NoErr is Go's nil error
NoErr == [msg |-> "", attr |-> ""]
\* newCredentialLinkAttributeError(msg), the attribute name kept apart
LinkErr(msg, name) == [msg |-> msg, attr |-> name]
ErrProcessSchema == [msg |-> "cannot process schema", attr |-> ""]

DigitVal == [c \in {"0", "1", "2", "3", "4", "5", "6", "7", "8", "9"} |->
               CASE c = "0" -> 0 [] c = "1" -> 1 [] c = "2" -> 2 [] c = "3" -> 3
                 [] c = "4" -> 4 [] c = "5" -> 5 [] c = "6" -> 6 [] c = "7" -> 7
                 [] c = "8" -> 8 [] c = "9" -> 9]

RECURSIVE AtoiLoop(_, _, _)
\* the digit loop of strconv.Atoi: n = n*10 + (ch - '0'), syntax error on a
\* byte outside '0'..'9'
AtoiLoop(s, k, n) ==
    IF k > Len(s) THEN [ok |-> TRUE, n |-> n]
    ELSE IF s[k] \notin DOMAIN DigitVal THEN [ok |-> FALSE, n |-> 0]
    ELSE AtoiLoop(s, k + 1, n * 10 + DigitVal[s[k]])

\* strconv.Atoi's fast path, taken for 0 < len(s) < 19 where a 64-bit int
\* cannot overflow: an optional sign, then at least one decimal digit
AtoiFast(s) ==
    LET signed == s[1] = "-" \/ s[1] = "+"
        body == IF signed THEN Tail(s) ELSE s
    IN IF Len(body) < 1 THEN [ok |-> FALSE, n |-> 0]
       ELSE LET r == AtoiLoop(body, 1, 0) IN
            IF ~r.ok THEN r
            ELSE IF s[1] = "-" THEN [ok |-> TRUE, n |-> 0 - r.n]
            ELSE r

\* the decimal digits of 1<<63 - 1 and of 1<<63, the largest magnitudes a
\* 64-bit int holds, positive and negative
MaxIntDigits ==
    <<"9", "2", "2", "3", "3", "7", "2", "0", "3", "6", "8", "5", "4", "7", "7", "5", "8", "0", "7">>
MinIntDigits ==
    <<"9", "2", "2", "3", "3", "7", "2", "0", "3", "6", "8", "5", "4", "7", "7", "5", "8", "0", "8">>

RECURSIVE StripZeros(_)
StripZeros(d) ==
    IF Len(d) > 1 /\ d[1] = "0" THEN StripZeros(Tail(d)) ELSE d

\* a > b for digit strings of equal length
DigitsGreater(a, b) ==
    \E k \in 1..Len(a) :
        /\ DigitVal[a[k]] > DigitVal[b[k]]
        /\ \A j \in 1..(k - 1) : a[j] = b[j]

\* the magnitude with digits d does not fit: strconv's cutoff tests in
\* ParseUint and ParseInt, made on the digits rather than on a 64-bit word
OutOfRange(d, neg) ==
    LET m == StripZeros(d)
        limit == IF neg THEN MinIntDigits ELSE MaxIntDigits
    IN Len(m) > Len(limit) \/ (Len(m) = Len(limit) /\ DigitsGreater(m, limit))

\* strconv.ParseInt(s, 10, 0), Atoi's slow path: syntax error on an empty
\* string, a bare sign or a non-digit; range error when the value does not
\* fit a 64-bit int.  Both errors are the same to the caller.
ParseInt(s) ==
    IF Len(s) = 0 THEN [ok |-> FALSE, n |-> 0]
    ELSE LET neg == s[1] = "-"
             body == IF s[1] = "-" \/ s[1] = "+" THEN Tail(s) ELSE s
         IN IF Len(body) < 1 \/ \E k \in 1..Len(body) : body[k] \notin DOMAIN DigitVal
            THEN [ok |-> FALSE, n |-> 0]
            ELSE IF OutOfRange(body, neg) THEN [ok |-> FALSE, n |-> 0]
            ELSE LET r == AtoiLoop(StripZeros(body), 1, 0) IN
                 IF neg THEN [ok |-> TRUE, n |-> 0 - r.n] ELSE r

AtoiNoNegate(s) ==
    LET r == IF 0 < Len(s) /\ Len(s) < 19 THEN AtoiFast(s) ELSE ParseInt(s)
    IN [ok |-> r.ok, n |-> IF r.n < 0 THEN 0 - r.n ELSE r.n]

\* strconv.Atoi on a 64-bit platform.  Values of ten or more significant
\* digits are beyond the integers of the checker; no input carries one that
\* is in range.
Atoi(s) ==
    IF 0 < Len(s) /\ Len(s) < 19 THEN AtoiFast(s) ELSE ParseInt(s)

\* strconv.ParseBool: a switch over twelve literals
ParseBool(s) ==
    IF s \in {<<"1">>, <<"t">>, <<"T">>, <<"T", "R", "U", "E">>,
              <<"t", "r", "u", "e">>, <<"T", "r", "u", "e">>}
    THEN [ok |-> TRUE, b |-> TRUE]
    ELSE IF s \in {<<"0">>, <<"f">>, <<"F">>, <<"F", "A", "L", "S", "E">>,
                   <<"f", "a", "l", "s", "e">>, <<"F", "a", "l", "s", "e">>}
    THEN [ok |-> TRUE, b |-> FALSE]
    ELSE [ok |-> FALSE, b |-> FALSE]

MsgConv == "error converting the attribute"
MsgInt == "error converting the attribute. Must be an integer"
MsgBool == "error converting the attribute. Must be a boolean"
MsgType == "error converting the attribute. type not supported"
MsgCount == "the number of attributes is not valid"

validateCredentialLinkAttribute(schemaAttribute, attributeLinkName, attributeLinkValue) ==
    IF schemaAttribute.Type = "string" THEN
        IF attributeLinkValue.k # "string"
        THEN [val |-> NilV, err |-> LinkErr(MsgConv, attributeLinkName)]
        ELSE [val |-> StrV(attributeLinkValue.s), err |-> NoErr]
    ELSE IF schemaAttribute.Type = "integer" THEN
        IF attributeLinkValue.k # "string"
        THEN [val |-> NilV, err |-> LinkErr(MsgConv, attributeLinkName)]
        ELSE LET r == Atoi(attributeLinkValue.s) IN
             IF ~r.ok
             THEN [val |-> NilV, err |-> LinkErr(MsgInt, attributeLinkName)]
             ELSE [val |-> IntV(r.n), err |-> NoErr]
    ELSE IF schemaAttribute.Type = "boolean" THEN
        IF attributeLinkValue.k # "string"
        THEN [val |-> NilV, err |-> LinkErr(MsgConv, attributeLinkName)]
        ELSE LET r == ParseBool(attributeLinkValue.s) IN
             IF ~r.ok
             THEN [val |-> NilV, err |-> LinkErr(MsgBool, attributeLinkName)]
             ELSE [val |-> BoolV(r.b), err |-> NoErr]
    ELSE [val |-> NilV, err |-> LinkErr(MsgType, attributeLinkName)]

-----------------------------------------------------------------------------
(* The schema document and AttributeNames *)

\* The three nested levels content["properties"], ["credentialSubject"],
\* ["properties"] are kept side by side: each is "map" (present and a
\* map[string]any), "absent" or "scalar" (present, not a map).  props is the
\* innermost mapping, read only when all three levels are maps.
LevelKinds == {"map", "absent", "scalar"}

Keys == {"a", "b", "c"}

\* An entry of the innermost mapping: a JSON object (kind "map") with its
\* id/title/type/format members ("" when the member is absent), JSON null,
\* or any other JSON value (kind "scalar").  badField: some member that
\* maps onto an Attribute field is not a JSON string.
PropEntry(kind, id, title, type, bad) ==
    [kind |-> kind, id |-> id, title |-> title, type |-> type, format |-> "",
     badField |-> bad]

TypedEntries == {PropEntry("map", "", "", t, FALSE) :
                   t \in {"string", "integer", "boolean", "date"}}

AllEntries == TypedEntries \cup
    {PropEntry("map", "zz", "T", "string", FALSE),
     PropEntry("map", "a", "", "integer", FALSE),
     PropEntry("null", "", "", "", FALSE),
     PropEntry("scalar", "", "", "", FALSE),
     PropEntry("map", "", "", "string", TRUE)}

Doc(p, cs, sp, props) ==
    [properties |-> p, credentialSubject |-> cs, subjectProperties |-> sp,
     props |-> props]

PropMaps(entries) == UNION {[ks -> entries] : ks \in SUBSET Keys}

\* documents a ValidateAndConvert call is followed on
Documents ==
    {Doc("map", "map", "map", m) : m \in PropMaps(TypedEntries)} \cup
    {Doc("absent", "absent", "absent", <<>>),
     Doc("map", "scalar", "absent", <<>>),
     Doc("map", "map", "absent", <<>>),
     Doc("map", "map", "map", [x \in {"a"} |-> PropEntry("scalar", "", "", "", FALSE)])}

\* documents AttributeNames alone is followed on
ExtractDocuments ==
    {Doc("map", "map", "map", m) : m \in PropMaps(AllEntries)} \cup
    {Doc(p, cs, sp, m) : p \in LevelKinds, cs \in LevelKinds, sp \in LevelKinds,
                         m \in {<<>>, [x \in {"a"} |-> PropEntry("map", "", "", "string", FALSE)]}}

\* the Attribute struct
Attribute(id, title, type, format) ==
    [ID |-> id, Title |-> title, Type |-> type, Format |-> format]

\* slices: Go tells a nil slice from an empty one
NilSlice == [nil |-> TRUE, elems |-> <<>>]
Slice(elems) == [nil |-> FALSE, elems |-> elems]

\* mapstructure.Decode(prop, &attr) into a zero Attribute: nil input is a
\* no-op, a non-map input or a member of the wrong type is an error
Decode(prop) ==
    IF prop.kind = "null" THEN [attr |-> Attribute("", "", "", ""), ok |-> TRUE]
    ELSE IF prop.kind # "map" \/ prop.badField
    THEN [attr |-> Attribute("", "", "", ""), ok |-> FALSE]
    ELSE [attr |-> Attribute(prop.id, prop.title, prop.type, prop.format), ok |-> TRUE]

\* the orders in which `for id, prop := range props` can visit a map
RangeOrders(props) ==
    {o \in [1..Cardinality(DOMAIN props) -> DOMAIN props] :
        \A x \in DOMAIN props : \E k \in DOMAIN o : o[k] = x}

ErrParsing == [msg |-> "parsing attribute", attr |-> ""]

RECURSIVE DecodeLoopKeepID(_, _, _, _)
DecodeLoopKeepID(props, order, k, attrs) ==
    IF k > Len(order) THEN [attrs |-> Slice(attrs), err |-> NoErr]
    ELSE LET id == order[k]
             d == Decode(props[id])
         IN IF ~d.ok
            THEN [attrs |-> NilSlice, err |-> [ErrParsing EXCEPT !.attr = id]]
            ELSE DecodeLoopKeepID(props, order, k + 1,
                    Append(attrs, IF d.attr.ID = "" THEN [d.attr EXCEPT !.ID = id]
                                  ELSE d.attr))

RECURSIVE DecodeLoop(_, _, _, _)
\* the range loop of AttributeNames, visiting the keys in `order`
DecodeLoop(props, order, k, attrs) ==
    IF k > Len(order) THEN [attrs |-> Slice(attrs), err |-> NoErr]
    ELSE LET id == order[k]
             d == Decode(props[id])
         IN IF ~d.ok
            THEN [attrs |-> NilSlice, err |-> [ErrParsing EXCEPT !.attr = id]]
            ELSE DecodeLoop(props, order, k + 1,
                            Append(attrs, [d.attr EXCEPT !.ID = id]))

AttributeNamesInnerFirst(c, order) ==
    IF c.subjectProperties # "map"
    THEN [attrs |-> NilSlice,
          err |-> [msg |-> "missing properties.credentialSubject.properties field", attr |-> ""]]
    ELSE IF c.credentialSubject # "map"
    THEN [attrs |-> NilSlice,
          err |-> [msg |-> "missing properties.credentialSubject field", attr |-> ""]]
    ELSE IF c.properties # "map"
    THEN [attrs |-> NilSlice, err |-> [msg |-> "missing properties field", attr |-> ""]]
    ELSE DecodeLoop(c.props, order, 1, <<>>)

\* JSONSchema.AttributeNames, the map visited in `order`
AttributeNames(c, order) ==
    IF c.properties # "map"
    THEN [attrs |-> NilSlice, err |-> [msg |-> "missing properties field", attr |-> ""]]
    ELSE IF c.credentialSubject # "map"
    THEN [attrs |-> NilSlice,
          err |-> [msg |-> "missing properties.credentialSubject field", attr |-> ""]]
    ELSE IF c.subjectProperties # "map"
    THEN [attrs |-> NilSlice,
          err |-> [msg |-> "missing properties.credentialSubject.properties field", attr |-> ""]]
    ELSE DecodeLoop(c.props, order, 1, <<>>)

\* the orders AttributeNames can visit the document's attribute map in (one,
\* empty, order when a level is missing)
Orders(c) ==
    IF c.properties = "map" /\ c.credentialSubject = "map" /\ c.subjectProperties = "map"
    THEN RangeOrders(c.props) ELSE {<<>>}

-----------------------------------------------------------------------------
(* Helpers of ValidateAndConvert *)

RECURSIVE findIndexFrom(_, _, _)
findIndexFrom(attributes, name, k) ==
    IF k >= Len(attributes) THEN -1
    ELSE IF attributes[k + 1].ID = name THEN k
    ELSE findIndexFrom(attributes, name, k + 1)

findIndexDefaultZero(attributes, name) ==
    LET k == findIndexFrom(attributes, name, 0) IN
    IF k = -1 /\ Len(attributes) > 0 THEN 0 ELSE k

\* findIndexForSchemaAttribute: 0-based index of the first match, -1 if none
findIndexForSchemaAttribute(attributes, name) == findIndexFrom(attributes, name, 0)

removeIndexTruncate(s, index) == SubSeq(s, 1, index)

\* removeIndex: append(s[:index], s[index+1:]...), index in range
removeIndex(s, index) == SubSeq(s, 1, index) \o SubSeq(s, index + 2, Len(s))

-----------------------------------------------------------------------------
(* ValidateAndConvert, one action per step of the call *)

Names == {"a", "b", "zz"}
Values == {StrV(<<"1">>), StrV(<<"x">>), IntV(7)}

\* domain.CredentialAttributes
CredentialAttribute(name, value) == [Name |-> name, Value |-> value]

AttrLists ==
    UNION {[1..n -> {CredentialAttribute(nm, v) : nm \in Names, v \in Values}] :
             n \in 0..MaxAttrs}

\* the slices a caller can pass: nil, or a list of up to MaxAttrs attributes
CallerSlices == {NilSlice} \cup {Slice(l) : l \in AttrLists}

NoRet == [attrs |-> NilSlice, err |-> NoErr]

VACIdle ==
    /\ pc = "idle" /\ credentialAttributes = NilSlice /\ schemaAttributes = <<>>
    /\ i = 0 /\ ret = NoRet /\ entry = NilSlice /\ orig = <<>>
    /\ examined = {} /\ notFound = FALSE

\* lines 132-136: the call, AttributeNames and its error check
VACEnter ==
    /\ pc = "idle"
    /\ \E arg \in CallerSlices, order \in Orders(content) :
         LET r == AttributeNames(content, order) IN
         /\ credentialAttributes' = arg
         /\ entry' = arg
         /\ IF r.err # NoErr
            THEN /\ pc' = "returned"
                 /\ ret' = [attrs |-> NilSlice, err |-> ErrProcessSchema]
                 /\ UNCHANGED <<schemaAttributes, orig>>
            ELSE /\ pc' = "loop"
                 /\ schemaAttributes' = r.attrs.elems
                 /\ orig' = r.attrs.elems
                 /\ ret' = NoRet
    /\ i' = 0 /\ examined' = {} /\ notFound' = FALSE
    /\ UNCHANGED <<content, loaded, extracted>>
    /\ UNCHANGED convVars /\ UNCHANGED migVars

VACIterSharedStorage ==
    /\ pc = "loop"
    /\ i < Len(credentialAttributes.elems)
    /\ LET attributeLink == credentialAttributes.elems[i + 1]
           index == findIndexForSchemaAttribute(schemaAttributes, attributeLink.Name)
       IN /\ examined' = examined \cup {i}
          /\ IF index = -1
             THEN /\ pc' = "panicked" /\ notFound' = TRUE
                  /\ UNCHANGED <<credentialAttributes, schemaAttributes, i, ret, content>>
             ELSE LET conv == validateCredentialLinkAttribute(
                                 schemaAttributes[index + 1], attributeLink.Name,
                                 attributeLink.Value)
                  IN IF conv.err # NoErr
                     THEN /\ pc' = "returned"
                          /\ ret' = [attrs |-> NilSlice, err |-> conv.err]
                          /\ UNCHANGED <<credentialAttributes, schemaAttributes, i,
                                         notFound, content>>
                     ELSE /\ credentialAttributes' =
                                [credentialAttributes EXCEPT !.elems[i + 1].Value = conv.val]
                          /\ schemaAttributes' = removeIndex(schemaAttributes, index)
                          /\ content' = [content EXCEPT !.props =
                                [x \in DOMAIN content.props \ {attributeLink.Name} |->
                                    content.props[x]]]
                          /\ i' = i + 1
                          /\ UNCHANGED <<pc, ret, notFound>>
    /\ UNCHANGED <<loaded, entry, orig, extracted>>
    /\ UNCHANGED convVars /\ UNCHANGED migVars

VACIterAssignFirst ==
    /\ pc = "loop"
    /\ i < Len(credentialAttributes.elems)
    /\ LET attributeLink == credentialAttributes.elems[i + 1]
           index == findIndexForSchemaAttribute(schemaAttributes, attributeLink.Name)
       IN /\ examined' = examined \cup {i}
          /\ IF index = -1
             THEN /\ pc' = "panicked" /\ notFound' = TRUE
                  /\ UNCHANGED <<credentialAttributes, schemaAttributes, i, ret>>
             ELSE LET conv == validateCredentialLinkAttribute(
                                 schemaAttributes[index + 1], attributeLink.Name,
                                 attributeLink.Value)
                  IN /\ credentialAttributes' =
                            [credentialAttributes EXCEPT !.elems[i + 1].Value = conv.val]
                     /\ IF conv.err # NoErr
                        THEN /\ pc' = "returned"
                             /\ ret' = [attrs |-> NilSlice, err |-> conv.err]
                             /\ UNCHANGED <<schemaAttributes, i, notFound>>
                        ELSE /\ schemaAttributes' = removeIndex(schemaAttributes, index)
                             /\ i' = i + 1
                             /\ UNCHANGED <<pc, ret, notFound>>
    /\ UNCHANGED <<content, loaded, entry, orig, extracted>>
    /\ UNCHANGED convVars /\ UNCHANGED migVars

\* lines 137-147: one iteration of the range loop.  schemaAttributes[index]
\* with index = -1 is a run-time panic (index out of range), which ends the
\* call without a return value.
VACIter ==
    /\ pc = "loop"
    /\ i < Len(credentialAttributes.elems)
    /\ LET attributeLink == credentialAttributes.elems[i + 1]
           index == findIndexForSchemaAttribute(schemaAttributes, attributeLink.Name)
       IN /\ examined' = examined \cup {i}
          /\ IF index = -1
             THEN /\ pc' = "panicked" /\ notFound' = TRUE
                  /\ UNCHANGED <<credentialAttributes, schemaAttributes, i, ret>>
             ELSE LET conv == validateCredentialLinkAttribute(
                                 schemaAttributes[index + 1], attributeLink.Name,
                                 attributeLink.Value)
                  IN IF conv.err # NoErr
                     THEN /\ pc' = "returned"
                          /\ ret' = [attrs |-> NilSlice, err |-> conv.err]
                          /\ UNCHANGED <<credentialAttributes, schemaAttributes, i,
                                         notFound>>
                     ELSE /\ credentialAttributes' =
                                [credentialAttributes EXCEPT !.elems[i + 1].Value = conv.val]
                          /\ schemaAttributes' = removeIndex(schemaAttributes, index)
                          /\ i' = i + 1
                          /\ UNCHANGED <<pc, ret, notFound>>
    /\ UNCHANGED <<content, loaded, entry, orig, extracted>>
    /\ UNCHANGED convVars /\ UNCHANGED migVars

VACCheckNoneLeft ==
    /\ pc = "loop"
    /\ i = Len(credentialAttributes.elems)
    /\ pc' = "returned"
    /\ IF Len(schemaAttributes) # 0
       THEN ret' = [attrs |-> NilSlice, err |-> LinkErr(MsgCount, "")]
       ELSE ret' = [attrs |-> credentialAttributes, err |-> NoErr]
    /\ UNCHANGED <<content, loaded, credentialAttributes, schemaAttributes, i,
                   entry, orig, examined, notFound, extracted>>
    /\ UNCHANGED convVars /\ UNCHANGED migVars

\* lines 149-153: the count check after the loop and the return
VACCheck ==
    /\ pc = "loop"
    /\ i = Len(credentialAttributes.elems)
    /\ pc' = "returned"
    /\ IF Len(schemaAttributes) # 1
       THEN ret' = [attrs |-> NilSlice, err |-> LinkErr(MsgCount, "")]
       ELSE ret' = [attrs |-> credentialAttributes, err |-> NoErr]
    /\ UNCHANGED <<content, loaded, credentialAttributes, schemaAttributes, i,
                   entry, orig, examined, notFound, extracted>>
    /\ UNCHANGED convVars /\ UNCHANGED migVars

\* the caller is done with the call (returned or panicked); the JSONSchema
\* stays and can be called again
VACReturn ==
    /\ pc \in {"returned", "panicked"}
    /\ pc' = "idle" /\ credentialAttributes' = NilSlice /\ schemaAttributes' = <<>>
    /\ i' = 0 /\ ret' = NoRet /\ entry' = NilSlice /\ orig' = <<>>
    /\ examined' = {} /\ notFound' = FALSE
    /\ UNCHANGED <<content, loaded, extracted>>
    /\ UNCHANGED convVars /\ UNCHANGED migVars

NoExtract == [called |-> FALSE, attrs |-> NilSlice, err |-> NoErr, order |-> <<>>]
NoConvIn == [type |-> "", name |-> "", value |-> NilV]
NoConvOut == [done |-> FALSE, val |-> NilV, err |-> NoErr]

MigIdle ==
    /\ mpc = "idle" /\ dbOpen = FALSE /\ mlog = <<>>
    /\ mret = [msg |-> "", cause |-> ""] /\ mdone = <<>>

\* a JSONSchema as Load leaves it, no call in progress
Init ==
    /\ content \in Documents
    /\ loaded = content
    /\ VACIdle
    /\ extracted = NoExtract
    /\ convIn = NoConvIn /\ convOut = NoConvOut
    /\ MigIdle

Next == VACEnter \/ VACIter \/ VACCheck \/ VACReturn

Spec == Init /\ [][Next]_vars

-----------------------------------------------------------------------------
(* AttributeNames called on its own *)

ExtractCall ==
    /\ ~extracted.called
    /\ \E order \in Orders(content) :
         LET r == AttributeNames(content, order) IN
         extracted' = [called |-> TRUE, attrs |-> r.attrs, err |-> r.err,
                       order |-> order]
    /\ UNCHANGED <<content, loaded>>
    /\ UNCHANGED vacVars /\ UNCHANGED convVars /\ UNCHANGED migVars

ExtractReturn ==
    /\ extracted.called
    /\ extracted' = NoExtract
    /\ UNCHANGED <<content, loaded>>
    /\ UNCHANGED vacVars /\ UNCHANGED convVars /\ UNCHANGED migVars

InitExtract ==
    /\ content \in ExtractDocuments
    /\ loaded = content
    /\ VACIdle
    /\ extracted = NoExtract
    /\ convIn = NoConvIn /\ convOut = NoConvOut
    /\ MigIdle

NextExtract == ExtractCall \/ ExtractReturn

SpecExtract == InitExtract /\ [][NextExtract]_vars

-----------------------------------------------------------------------------
(* validateCredentialLinkAttribute called on every (type, value) pair *)

Chars == {"0", "1", "9", "-", "+", "t", "F", "x"}

\* boolean literals and near misses, longer than MaxStrLen
Words ==
    {<<"t", "r", "u", "e">>, <<"T", "R", "U", "E">>, <<"T", "r", "u", "e">>,
     <<"f", "a", "l", "s", "e">>, <<"F", "A", "L", "S", "E">>,
     <<"F", "a", "l", "s", "e">>, <<"t", "R", "U", "E">>, <<"T", "R", "u", "e">>,
     <<"f", "A", "L", "S", "E">>, <<"y", "e", "s">>, <<"t", "r", "u", "e", "e">>,
     <<"-", "1", "0", "9", "0">>, <<"1", "_", "0">>, <<"0", "x", "1", "F">>,
     <<"1", ".", "0">>, <<" ", "1">>}

\* integer literals on Atoi's slow path (19 characters or more): the first
\* magnitudes that do not fit a 64-bit int, and small values written with
\* leading zeros
LongLiterals ==
    {<<"9", "2", "2", "3", "3", "7", "2", "0", "3", "6", "8", "5", "4", "7", "7", "5", "8", "0", "8">>,
     <<"-", "9", "2", "2", "3", "3", "7", "2", "0", "3", "6", "8", "5", "4", "7", "7", "5", "8", "0", "9">>,
     <<"+", "9", "2", "2", "3", "3", "7", "2", "0", "3", "6", "8", "5", "4", "7", "7", "5", "8", "0", "8">>,
     <<"9", "9", "9", "9", "9", "9", "9", "9", "9", "9", "9", "9", "9", "9", "9", "9", "9", "9", "9", "9">>,
     <<"-", "0", "0", "0", "0", "0", "0", "0", "0", "0", "0", "0", "0", "0", "0", "0", "0", "0", "1", "9">>,
     <<"0", "0", "0", "0", "0", "0", "0", "0", "0", "0", "0", "0", "0", "0", "0", "0", "0", "0", "0">>,
     <<"0", "0", "0", "0", "0", "0", "0", "0", "0", "0", "0", "0", "0", "0", "0", "0", "0", "1", "x">>}

Strings == UNION {[1..n -> Chars] : n \in 0..MaxStrLen} \cup Words \cup LongLiterals

ConvTypes == {"string", "integer", "boolean", "date", "number", ""}

ConvValues == {StrV(str) : str \in Strings} \cup
              {IntV(7), IntV(0), BoolV(TRUE), BoolV(FALSE), NilV}

ConvApply ==
    /\ ~convOut.done
    /\ LET r == validateCredentialLinkAttribute(
                   Attribute(convIn.name, "", convIn.type, ""), convIn.name,
                   convIn.value)
       IN convOut' = [done |-> TRUE, val |-> r.val, err |-> r.err]
    /\ UNCHANGED <<content, loaded, extracted, convIn>>
    /\ UNCHANGED vacVars /\ UNCHANGED migVars

InitConv ==
    /\ content = Doc("absent", "absent", "absent", <<>>)
    /\ loaded = content
    /\ VACIdle
    /\ extracted = NoExtract
    /\ convIn \in {[type |-> t, name |-> "a", value |-> v] :
                     t \in ConvTypes, v \in ConvValues}
    /\ convOut = NoConvOut
    /\ MigIdle

NextConv == ConvApply

SpecConv == InitConv /\ [][NextConv]_vars

-----------------------------------------------------------------------------
(* Migrate *)

URLs == {"postgres://db1", "not a url"}
Causes == {"cause1", "cause2"}
NoCause == ""

NoMigErr == [msg |-> "", cause |-> NoCause]
\* fmt.Errorf("<msg>: %w", err)
Wrap(msg, cause) == [msg |-> msg, cause |-> cause]

\* a library call: what was called, its argument, the error it returned
Event(op, arg, err) == [op |-> op, arg |-> arg, err |-> err]

\* lines 16-21: sql.Open and its error check; on failure nothing is deferred
MigrateOpen ==
    /\ mpc = "idle"
    /\ Len(mdone) < MaxCalls
    /\ \E databaseURL \in URLs, err \in Causes \cup {NoCause} :
         /\ mlog' = <<Event("sql.Open", databaseURL, err)>>
         /\ IF err # NoCause
            THEN /\ mret' = Wrap("error open connection with database", err)
                 /\ mpc' = "returned"
                 /\ dbOpen' = FALSE
            ELSE /\ mret' = NoMigErr
                 /\ mpc' = "opened"
                 /\ dbOpen' = TRUE
    /\ UNCHANGED <<content, loaded, extracted, mdone>>
    /\ UNCHANGED vacVars /\ UNCHANGED convVars

MigrateSetDialectLeak ==
    /\ mpc = "opened"
    /\ \E err \in Causes \cup {NoCause} :
         LET log == mlog \o <<Event("goose.SetBaseFS", "embedMigrations", NoCause),
                              Event("goose.SetDialect", "postgres", err)>>
         IN IF err # NoCause
            THEN /\ mret' = Wrap("error setting dialect", err)
                 /\ mlog' = log
                 /\ dbOpen' = dbOpen
                 /\ mpc' = "returned"
            ELSE /\ mlog' = log
                 /\ mpc' = "dialect"
                 /\ UNCHANGED <<mret, dbOpen>>
    /\ UNCHANGED <<content, loaded, extracted, mdone>>
    /\ UNCHANGED vacVars /\ UNCHANGED convVars

\* lines 23-28: defer db.Close(), goose.SetBaseFS, goose.SetDialect and its
\* error check; the deferred Close runs when the function returns
MigrateSetDialect ==
    /\ mpc = "opened"
    /\ \E err \in Causes \cup {NoCause} :
         LET log == mlog \o <<Event("goose.SetBaseFS", "embedMigrations", NoCause),
                              Event("goose.SetDialect", "postgres", err)>>
         IN IF err # NoCause
            THEN /\ mret' = Wrap("error setting dialect", err)
                 /\ mlog' = Append(log, Event("db.Close", "", NoCause))
                 /\ dbOpen' = FALSE
                 /\ mpc' = "returned"
            ELSE /\ mlog' = log
                 /\ mpc' = "dialect"
                 /\ UNCHANGED <<mret, dbOpen>>
    /\ UNCHANGED <<content, loaded, extracted, mdone>>
    /\ UNCHANGED vacVars /\ UNCHANGED convVars

\* lines 30-35: goose.Up, its error check, the return and the deferred Close
MigrateUp ==
    /\ mpc = "dialect"
    /\ \E err \in Causes \cup {NoCause} :
         /\ mret' = IF err # NoCause
                    THEN Wrap("error trying to run migrations", err)
                    ELSE NoMigErr
         /\ mlog' = mlog \o <<Event("goose.Up", "migrations", err), Event("db.Close", "", NoCause)>>
         /\ dbOpen' = FALSE
         /\ mpc' = "returned"
    /\ UNCHANGED <<content, loaded, extracted, mdone>>
    /\ UNCHANGED vacVars /\ UNCHANGED convVars

\* the caller has the result; Migrate can be called again
MigrateReturn ==
    /\ mpc = "returned"
    /\ mdone' = Append(mdone, mret)
    /\ mpc' = "idle" /\ mlog' = <<>> /\ mret' = NoMigErr
    /\ UNCHANGED <<content, loaded, extracted, dbOpen>>
    /\ UNCHANGED vacVars /\ UNCHANGED convVars

InitMigrate ==
    /\ content = Doc("absent", "absent", "absent", <<>>)
    /\ loaded = content
    /\ VACIdle
    /\ extracted = NoExtract
    /\ convIn = NoConvIn /\ convOut = NoConvOut
    /\ MigIdle

NextMigrate == MigrateOpen \/ MigrateSetDialect \/ MigrateUp \/ MigrateReturn

SpecMigrate == InitMigrate /\ [][NextMigrate]_vars

-----------------------------------------------------------------------------
(* Properties *)

\* the call has ended, by a return or by a panic
CallEnded == pc \in {"returned", "panicked"}

\* the loop ran over every supplied attribute and the call returned
LoopCompleted ==
    pc = "returned" /\ ret.err # ErrProcessSchema /\ i = Len(entry.elems)

\* the descriptor of the schema whose id is `name`
DescriptorFor(name) == CHOOSE d \in {orig[j] : j \in 1..Len(orig)} : d.ID = name

HasDescriptor(name) == \E j \in 1..Len(orig) : orig[j].ID = name

\* the value the attribute supplied at position j (1-based) converts to
ConvertedAt(j) ==
    validateCredentialLinkAttribute(DescriptorFor(entry.elems[j].Name),
                                    entry.elems[j].Name, entry.elems[j].Value)

\* C1: a call in which a supplied name matches no descriptor of the working
\* set ends by returning an error value and no list; it never ends in a
\* panic at index -1
C1_NotFoundReturnsError ==
    (CallEnded /\ notFound) =>
        (pc = "returned" /\ ret.err # NoErr /\ ret.attrs = NilSlice)

\* C2: the call returns success only if exactly one descriptor is left after
\* the loop (descriptors = supplied + 1), and a completed loop that leaves
\* any other number returns the count error and no list
C2_SuccessIffOneLeft ==
    /\ (pc = "returned" /\ ret.err = NoErr) =>
          /\ LoopCompleted
          /\ Len(schemaAttributes) = 1
          /\ Len(orig) = Len(entry.elems) + 1
    /\ LoopCompleted =>
          IF Len(orig) = Len(entry.elems) + 1
          THEN ret.err = NoErr /\ ret.attrs = credentialAttributes
          ELSE ret.err = LinkErr(MsgCount, "") /\ ret.attrs = NilSlice

\* N distinct matching names for N >= 2 descriptors: none left, count error
C2_Witness ==
    /\ LoopCompleted /\ Len(entry.elems) = 2 /\ Len(orig) = 2
    /\ Len(schemaAttributes) = 0 /\ ret.err.msg = MsgCount

\* C4: on success the returned list has the length and, position by
\* position, the names of the supplied list, and each value is the
\* conversion of the supplied value under the descriptor named like it
C4_SuccessKeepsNamesConvertsValues ==
    (pc = "returned" /\ ret.err = NoErr) =>
        /\ ret.attrs.nil = entry.nil
        /\ Len(ret.attrs.elems) = Len(entry.elems)
        /\ \A j \in 1..Len(entry.elems) :
              /\ ret.attrs.elems[j].Name = entry.elems[j].Name
              /\ HasDescriptor(entry.elems[j].Name)
              /\ ConvertedAt(j).err = NoErr
              /\ ret.attrs.elems[j].Value = ConvertedAt(j).val

\* a success with two attributes, one of them converted to an integer
C4_Witness ==
    /\ pc = "returned" /\ ret.err = NoErr /\ Len(entry.elems) = 2
    /\ \E j \in 1..2 : /\ entry.elems[j].Value = StrV(<<"1">>)
                       /\ ret.attrs.elems[j].Value = IntV(1)

\* C7: no step of ValidateAndConvert changes the schema document, and
\* AttributeNames keeps returning the descriptors of the loaded document
C7_SchemaUnchanged ==
    /\ content = loaded
    /\ \A o \in Orders(loaded) :
          /\ o \in Orders(content)
          /\ AttributeNames(content, o) = AttributeNames(loaded, o)

\* the working list of a call was shrunk twice
C7_Witness ==
    CallEnded /\ i = 2 /\ Len(schemaAttributes) = Len(orig) - 2 /\ Len(orig) = 3

\* the names of the first k supplied attributes
FirstNames(k) == {entry.elems[j].Name : j \in 1..k}

Unconsumed(d) == d.ID \notin FirstNames(i)

\* C9: after i attributes the working set is the original list without the
\* descriptors named by the first i attributes, in the original order; the
\* first i names are distinct, and a successful call has no repeated name
C9_WorkingSetIsOrigMinusConsumed ==
    /\ pc \in {"loop", "returned", "panicked"} =>
          /\ schemaAttributes = SelectSeq(orig, Unconsumed)
          /\ Len(schemaAttributes) = Len(orig) - i
          /\ Cardinality(FirstNames(i)) = i
          /\ FirstNames(i) \subseteq {orig[j].ID : j \in 1..Len(orig)}
    /\ (pc = "returned" /\ ret.err = NoErr) =>
          \A j, k \in 1..Len(entry.elems) :
              j # k => entry.elems[j].Name # entry.elems[k].Name

\* two removals, the second descriptor found after its position was shifted
\* by the first removal
C9_Witness ==
    /\ pc = "loop" /\ i = 2 /\ Len(orig) = 3
    /\ orig[1].ID = entry.elems[1].Name
    /\ orig[3].ID = entry.elems[2].Name

-----------------------------------------------------------------------------
(* Reference conversion, stated independently of the code's loops *)

Digits == {"0", "1", "2", "3", "4", "5", "6", "7", "8", "9"}

\* an optional sign followed by one or more decimal digits
IsIntLiteral(s) ==
    \E signLen \in {0, 1} :
        /\ Len(s) > signLen
        /\ signLen = 1 => s[1] \in {"+", "-"}
        /\ \A k \in (signLen + 1)..Len(s) : s[k] \in Digits

RECURSIVE Pow10(_)
Pow10(k) == IF k = 0 THEN 1 ELSE 10 * Pow10(k - 1)

RECURSIVE WeightedSum(_, _)
\* sum of digit * 10^(distance from the right end) over positions from..Len(s)
WeightedSum(s, from) ==
    IF from > Len(s) THEN 0
    ELSE DigitVal[s[from]] * Pow10(Len(s) - from) + WeightedSum(s, from + 1)

\* leading zeros carry no value and are skipped, not weighted
RECURSIVE FirstSignificant(_, _)
FirstSignificant(s, from) ==
    IF from < Len(s) /\ s[from] = "0" THEN FirstSignificant(s, from + 1) ELSE from

IntLiteralValue(s) ==
    IF s[1] = "-" THEN 0 - WeightedSum(s, FirstSignificant(s, 2))
    ELSE IF s[1] = "+" THEN WeightedSum(s, FirstSignificant(s, 2))
    ELSE WeightedSum(s, FirstSignificant(s, 1))

Upper == [c \in {"t", "r", "u", "e", "f", "a", "l", "s"} |->
            CASE c = "t" -> "T" [] c = "r" -> "R" [] c = "u" -> "U" [] c = "e" -> "E"
              [] c = "f" -> "F" [] c = "a" -> "A" [] c = "l" -> "L" [] c = "s" -> "S"]

\* the spellings of a lower-case word: as is, upper case, capitalised, and
\* its first letter in either case
Spellings(w) ==
    {w, [k \in 1..Len(w) |-> Upper[w[k]]],
     [k \in 1..Len(w) |-> IF k = 1 THEN Upper[w[k]] ELSE w[k]],
     <<w[1]>>, <<Upper[w[1]]>>}

TrueLiterals == Spellings(<<"t", "r", "u", "e">>) \cup {<<"1">>}
FalseLiterals == Spellings(<<"f", "a", "l", "s", "e">>) \cup {<<"0">>}

ConvFails == convOut.err # NoErr /\ convOut.val = NilV

\* the digits of an integer literal after its sign and leading zeros
Significant(s) == StripZeros(IF s[1] \in {"+", "-"} THEN Tail(s) ELSE s)

\* the literal's value lies in -(1<<63) .. (1<<63)-1
FitsInt(s) ==
    LET m == Significant(s)
        limit == IF s[1] = "-" THEN MinIntDigits ELSE MaxIntDigits
    IN \/ Len(m) < 19
       \/ Len(m) = 19 /\ ~\E k \in 1..19 :
                            /\ DigitVal[m[k]] > DigitVal[limit[k]]
                            /\ \A j \in 1..(k - 1) : m[j] = limit[j]

StringCaseAgrees ==
    IF convIn.value.k = "string"
    THEN convOut.err = NoErr /\ convOut.val = convIn.value
    ELSE ConvFails

BooleanCaseAgrees ==
    IF convIn.value.k = "string" /\ convIn.value.s \in TrueLiterals \cup FalseLiterals
    THEN convOut.err = NoErr /\ convOut.val = BoolV(convIn.value.s \in TrueLiterals)
    ELSE ConvFails

\* C3 as stated: validateCredentialLinkAttribute agrees with the reference
\* conversion on every (declared type, value) pair, type integer returning
\* the parsed integer for every string holding a base-10 integer literal
C3_ConversionAgreesWithReference ==
    convOut.done =>
        CASE convIn.type = "string" -> StringCaseAgrees
          [] convIn.type = "integer" ->
               IF convIn.value.k = "string" /\ IsIntLiteral(convIn.value.s)
               THEN /\ convOut.err = NoErr
                    /\ convOut.val = IntV(IntLiteralValue(convIn.value.s))
               ELSE ConvFails
          [] convIn.type = "boolean" -> BooleanCaseAgrees
          [] OTHER -> ConvFails

\* C3 amended: as C3, with type integer returning the parsed integer for a
\* string holding a base-10 integer literal whose value fits a 64-bit int,
\* and an error for every other value, out-of-range literals included
C3_ConversionAgreesWithinIntRange ==
    convOut.done =>
        CASE convIn.type = "string" -> StringCaseAgrees
          [] convIn.type = "integer" ->
               IF /\ convIn.value.k = "string"
                  /\ IsIntLiteral(convIn.value.s)
                  /\ FitsInt(convIn.value.s)
               THEN /\ convOut.err = NoErr
                    /\ convOut.val = IntV(IntLiteralValue(convIn.value.s))
               ELSE ConvFails
          [] convIn.type = "boolean" -> BooleanCaseAgrees
          [] OTHER -> ConvFails

\* a negative literal with leading zeros, parsed on the slow path
C3_Witness ==
    /\ convOut.done /\ convIn.type = "integer"
    /\ convIn.value.k = "string" /\ Len(convIn.value.s) = 20
    /\ convIn.value.s[1] = "-" /\ convOut.val = IntV(-19)

-----------------------------------------------------------------------------
(* AttributeNames *)

LevelsAreMaps(c) ==
    c.properties = "map" /\ c.credentialSubject = "map" /\ c.subjectProperties = "map"

\* an entry mapstructure can decode: null, or an object whose id, title,
\* type and format members, where present, are strings
Decodable(e) == e.kind = "null" \/ (e.kind = "map" /\ ~e.badField)

ExtractedIDs == {extracted.attrs.elems[j].ID : j \in 1..Len(extracted.attrs.elems)}

\* C5: for a document whose attribute mapping has N entries, all decodable,
\* AttributeNames returns N descriptors with pairwise distinct ids, the ids
\* being the keys of the mapping whatever `id` member an entry carries
C5_OneDescriptorPerKey ==
    (/\ extracted.called
     /\ LevelsAreMaps(content)
     /\ \A x \in DOMAIN content.props : Decodable(content.props[x])) =>
        /\ extracted.err = NoErr
        /\ ~extracted.attrs.nil
        /\ Len(extracted.attrs.elems) = Cardinality(DOMAIN content.props)
        /\ ExtractedIDs = DOMAIN content.props
        /\ Cardinality(ExtractedIDs) = Len(extracted.attrs.elems)
        /\ \A j \in 1..Len(extracted.attrs.elems) :
              LET a == extracted.attrs.elems[j]
                  e == content.props[extracted.order[j]]
              IN /\ a.ID = extracted.order[j]
                 /\ e.kind = "map" => a.Type = e.type /\ a.Title = e.title

\* three descriptors extracted, one from an entry whose own id member names
\* another key
C5_Witness ==
    /\ extracted.called /\ extracted.err = NoErr
    /\ Len(extracted.attrs.elems) = 3
    /\ \E x \in DOMAIN content.props :
          content.props[x].kind = "map" /\ content.props[x].id \notin {"", x}
                /\ content.props[x].id \in DOMAIN content.props

MsgProps == "missing properties field"
MsgSubject == "missing properties.credentialSubject field"
MsgSubjectProps == "missing properties.credentialSubject.properties field"

\* C6: AttributeNames reports the outermost level that is missing or not a
\* mapping, each level with its own error, and returns a nil list with every
\* error, a decode failure included
C6_OutermostMissingLevelReported ==
    extracted.called =>
        /\ content.properties # "map" => extracted.err.msg = MsgProps
        /\ (content.properties = "map" /\ content.credentialSubject # "map") =>
              extracted.err.msg = MsgSubject
        /\ (/\ content.properties = "map" /\ content.credentialSubject = "map"
            /\ content.subjectProperties # "map") =>
              extracted.err.msg = MsgSubjectProps
        /\ (/\ LevelsAreMaps(content)
            /\ \E x \in DOMAIN content.props : ~Decodable(content.props[x])) =>
              extracted.err.msg \notin {"", MsgProps, MsgSubject, MsgSubjectProps}
        /\ extracted.err # NoErr => extracted.attrs = NilSlice
        /\ Cardinality({MsgProps, MsgSubject, MsgSubjectProps}) = 3

\* a document whose middle and innermost levels are both not mappings
C6_Witness ==
    /\ extracted.called
    /\ content.properties = "map" /\ content.credentialSubject = "scalar"
    /\ content.subjectProperties = "absent"
    /\ extracted.err.msg = MsgSubject /\ extracted.attrs = NilSlice

-----------------------------------------------------------------------------
(* Migrate *)

Ops == [k \in 1..Len(mlog) |-> mlog[k].op]

StageOrder == <<"sql.Open", "goose.SetBaseFS", "goose.SetDialect", "goose.Up">>

\* the library calls that are stages, in the order made
StagesRun == SelectSeq(Ops, LAMBDA op : op # "db.Close")

FailedAt(k) == mlog[k].err # NoCause

\* C8: the stages run in the order open, set dialect, apply migrations; the
\* first failing stage is the last stage run and Migrate returns an error
\* wrapping its cause; whenever the connection was opened it is closed, last
\* of all, before Migrate returns
C8_StagesInOrderAndConnectionClosed ==
    /\ StagesRun = SubSeq(StageOrder, 1, Len(StagesRun))
    /\ \A k \in 1..Len(mlog) :
          FailedAt(k) =>
              /\ mpc = "returned"
              /\ mret.cause = mlog[k].err
              /\ mret.msg # ""
              /\ \A m \in (k + 1)..Len(mlog) : mlog[m].op = "db.Close"
    /\ mpc = "returned" =>
          /\ ~dbOpen
          /\ (\A k \in 1..Len(mlog) : ~FailedAt(k)) =>
                (mret = NoMigErr /\ Len(StagesRun) = 4)
          /\ ~FailedAt(1) =>
                /\ mlog[Len(mlog)].op = "db.Close"
                /\ \A k \in 1..(Len(mlog) - 1) : mlog[k].op # "db.Close"
          /\ FailedAt(1) => Ops = <<"sql.Open">>
    /\ mpc = "idle" => ~dbOpen
    /\ mpc \in {"opened", "dialect"} => dbOpen

\* Migrate returned the dialect error, the connection opened and closed
C8_Witness ==
    /\ mpc = "returned" /\ mret.msg = "error setting dialect"
    /\ Ops = <<"sql.Open", "goose.SetBaseFS", "goose.SetDialect", "db.Close">>
    /\ ~dbOpen

====
